---- MODULE Spec2Model ----
(***************************************************************************)
(* Manifest table of icechunk (src/format/manifest.rs): the coordinate     *)
(* codec of ChunkIndices, the streaming builder mk_manifests_table, and    *)
(* the readers of ManifestsTable (get_row, get_chunk_info_index,           *)
(* get_chunk_info, iter).                                                  *)
(*                                                                         *)
(* A RecordBatch is a record of columns; a column is a sequence of cells   *)
(* [valid, v]: valid is the arrow validity bit, v the content of the value *)
(* buffer at that slot (arrow's value(i) reads it whatever the bit says).  *)
(* A batch is [num_rows, columns]: columns maps the names the batch has to  *)
(* arrays [dtype, cells], so that a lookup by name or a downcast can fail.  *)
(* Byte strings are sequences over 0..255.  u64 values are kept below 2^31 *)
(* (the integer range of the model checker); every component is still      *)
(* encoded on 8 bytes as the code does.  A usize is kept at its 64 bits, as *)
(* 4 limbs of 16 bits, most significant first, so that rank * 8 overflows   *)
(* where the code's does.                                                  *)
(***************************************************************************)
EXTENDS Integers, Sequences, FiniteSets, TLC

VARIABLES
    input,          \* the stream handed to mk_manifests_table
    pc,             \* position of mk_manifests_table: building / done / failed
    consumed,       \* elements of the stream yielded by chunks.next() so far
    array_ids, coords, chunk_ids, inline_data, virtual_paths, offsets, lengths,
    extras,         \* the per-column accumulators of mk_manifests_table
    result,         \* what mk_manifests_table returned
    query,          \* the last lookup on the table and what it returned
    its,            \* the iterators created by iter, each with its own range
    codec           \* the last codec call and what it returned

vars == <<input, pc, consumed, array_ids, coords, chunk_ids, inline_data,
          virtual_paths, offsets, lengths, extras, result, query, its, codec>>

buildVars == <<input, pc, consumed, array_ids, coords, chunk_ids, inline_data,
               virtual_paths, offsets, lengths, extras, result>>

(***************************** bounds **************************************)
MaxLen == 3          \* longest input stream
MaxRank == 2         \* longest ChunkIndices given to the codec
ObjectIdSize == 2    \* modelled width of ObjectId (ObjectId::SIZE)

(************************* Option and outcomes *****************************)
None == [kind |-> "None"]
Some(x) == [kind |-> "Some", val |-> x]

Ok(x) == [kind |-> "Ok", val |-> x]
Err(e) == [kind |-> "Err", err |-> e]
Panic == [kind |-> "Panic"]

RECURSIVE SeqsUpTo(_, _)
SeqsUpTo(S, n) ==
    IF n = 0 THEN {<<>>}
    ELSE LET shorter == SeqsUpTo(S, n - 1)
         IN  shorter \cup {Append(s, x) : s \in {t \in shorter : Len(t) = n - 1}, x \in S}

(***************************** codec ***************************************)
\* u64::to_be_bytes, most significant byte first, on n bytes
RECURSIVE to_be_bytes_n(_, _)
to_be_bytes_n(c, n) ==
    IF n = 0 THEN <<>> ELSE Append(to_be_bytes_n(c \div 256, n - 1), c % 256)

to_be_bytes(c) == to_be_bytes_n(c, 8)

\* u64::from_be_bytes
RECURSIVE from_be_bytes(_)
from_be_bytes(b) ==
    IF Len(b) = 0 THEN 0
    ELSE from_be_bytes(SubSeq(b, 1, Len(b) - 1)) * 256 + b[Len(b)]

RECURSIVE flat_map_be(_)
flat_map_be(value) ==
    IF Len(value) = 0 THEN <<>>
    ELSE to_be_bytes(value[1]) \o flat_map_be(Tail(value))

\* mutant of encode: little-endian components
RECURSIVE flat_map_le(_)
flat_map_le(value) ==
    IF Len(value) = 0 THEN <<>>
    ELSE LET be == to_be_bytes(value[1])
         IN  [i \in 1..8 |-> be[9 - i]] \o flat_map_le(Tail(value))

encode_le(value) == flat_map_le(value)

\* impl From<&ChunkIndices> for Vec<u8>
encode(value) == flat_map_be(value)

\* ChunkIndices::unchecked_try_from_slice: chunks(8), each chunk converted with
\* try_into().expect(..), which panics on a last chunk shorter than 8 bytes
unchecked_try_from_slice(slice) ==
    IF Len(slice) % 8 # 0 THEN Panic
    ELSE Ok([i \in 1..(Len(slice) \div 8) |->
                from_be_bytes(SubSeq(slice, 8 * (i - 1) + 1, 8 * i))])

\* usize: 4 limbs of 16 bits, most significant first
LimbBase == 65536

\* the usize of a number the model's integers hold
Usize(n) == <<0, 0, n \div LimbBase, n % LimbBase>>

\* u * k on one more limb than u: the first limb is what does not fit
RECURSIVE MulWide(_, _)
MulWide(u, k) ==
    IF Len(u) = 0 THEN <<0>>
    ELSE LET rest == MulWide(Tail(u), k)
             p == u[1] * k + rest[1]
         IN  <<p \div LimbBase, p % LimbBase>> \o Tail(rest)

\* ChunkIndices::try_from_slice; delegated records the call of the unchecked
\* decoder.  rank * 8 is usize arithmetic: when it does not fit, a build with
\* overflow checks (debug) panics and a build without (release) wraps.
try_from_slice(rank, slice, overflow_checks) ==
    LET wide == MulWide(rank, 8)
    IN  IF wide[1] # 0 /\ overflow_checks
        THEN [kind |-> "Panic", delegated |-> FALSE]
        ELSE IF Usize(Len(slice)) # Tail(wide)
        THEN [kind |-> "Err", len |-> Len(slice), expecting |-> rank,
              delegated |-> FALSE]
        ELSE unchecked_try_from_slice(slice) @@ [delegated |-> TRUE]

(*************************** data model ************************************)
Inline(data) == [tag |-> "Inline", data |-> data]
Virtual(location, offset, length) ==
    [tag |-> "Virtual", location |-> location, offset |-> offset, length |-> length]
Ref(id, offset, length) ==
    [tag |-> "Ref", id |-> id, offset |-> offset, length |-> length]

ChunkInfo(node, coord, payload) == [node |-> node, coord |-> coord, payload |-> payload]

\* an ObjectId whose bytes are all b
MkObjectId(b) == [i \in 1..ObjectIdSize |-> b]

\* the records of tests::test_get_chunk_info (coordinates of rank 2), plus an
\* empty inline chunk at the coordinates of rank 0
c1a == ChunkInfo(1, <<0, 0>>, Ref(MkObjectId(7), 0, 128))
c2a == ChunkInfo(1, <<0, 1>>, Ref(MkObjectId(9), 42, 43))
c1b == ChunkInfo(2, <<0, 0>>, Inline(<<104, 105>>))
c1c == ChunkInfo(2, <<0, 0>>, Virtual("s3://foo.bar", 99, 100))
c0 == ChunkInfo(3, <<>>, Inline(<<>>))

ChunkInfos == {c1a, c2a, c1b, c1c, c0}
Errors == {"E1", "E2"}

\* Stream<Item = Result<ChunkInfo, E>>
StreamItems == {Ok(c) : c \in ChunkInfos} \cup {Err(e) : e \in Errors}

\* coordinates asked for in lookups
QueryCoords == {<<0, 0>>, <<0, 1>>, <<1, 1>>, <<>>}

(************************ column constructors ******************************)
Cell(x) == [valid |-> TRUE, v |-> x]
Null(dflt) == [valid |-> FALSE, v |-> dflt]

\* an arrow array: its data type and its slots
Array(dtype, cells) == [dtype |-> dtype, cells |-> cells]

\* slots collected from Option values: a None leaves the default in the buffer
FromOptions(coll, dflt) ==
    [i \in 1..Len(coll) |-> IF coll[i].kind = "Some" THEN Cell(coll[i].val) ELSE Null(dflt)]

mk_offsets_array(coll) == Array("UInt64", FromOptions(coll, 0))
mk_virtual_paths_array(coll) == Array("Utf8", FromOptions(coll, ""))
mk_array_ids_array(coll) == Array("UInt32", [i \in 1..Len(coll) |-> Cell(coll[i])])
mk_inline_data_array(coll) == Array("Binary", FromOptions(coll, <<>>))
mk_lengths_array(coll) == Array("UInt64", [i \in 1..Len(coll) |-> Cell(coll[i])])
mk_extras_array(coll) == Array("Utf8", [i \in 1..Len(coll) |-> Null("")])
mk_coords_array(coll) == Array("Binary", [i \in 1..Len(coll) |-> Cell(encode(coll[i]))])
mk_chunk_ids_array(coll) == Array("FixedSizeBinary", FromOptions(coll, MkObjectId(0)))

\* RecordBatch::try_new on columns of one length
RecordBatchTryNew(columns) ==
    [num_rows |-> Len(columns.array_id.cells), columns |-> columns]

NumRows(batch) == batch.num_rows

(****************************** readers ************************************)
\* RecordBatch::column_by_name
column_by_name(batch, name) ==
    IF name \in DOMAIN batch.columns THEN Some(batch.columns[name]) ELSE None

\* column_by_name(name)?.as_.._opt()?: the slots of the column when the batch has
\* it with that data type
TypedColumn(batch, name, dtype) ==
    LET col == column_by_name(batch, name)
    IN  IF col.kind = "None" THEN None
        ELSE IF col.val.dtype # dtype THEN None
        ELSE Some(col.val.cells)

\* the columns get_row asks for, in its order, with the types it downcasts to
RowColumns ==
    <<<<"array_id", "UInt32">>, <<"coords", "Binary">>, <<"offset", "UInt64">>,
      <<"length", "UInt64">>, <<"inline_data", "Binary">>,
      <<"chunk_id", "FixedSizeBinary">>, <<"virtual_path", "Utf8">>,
      <<"extra", "Utf8">>>>

\* mutant of get_row: the length of a Ref or Virtual chunk is read from the
\* offset column
get_row_length_from_offset(batch, row) ==
    IF row >= NumRows(batch) THEN None
    ELSE IF \E k \in 1..Len(RowColumns) :
                TypedColumn(batch, RowColumns[k][1], RowColumns[k][2]).kind = "None"
    THEN None
    ELSE LET idx == row + 1
             cols == batch.columns
             dec == unchecked_try_from_slice(cols.coords.cells[idx].v)
         IN  IF dec.kind = "Panic" THEN Panic
             ELSE IF cols.inline_data.cells[idx].valid
             THEN Some(ChunkInfo(cols.array_id.cells[idx].v, dec.val,
                                 Inline(cols.inline_data.cells[idx].v)))
             ELSE IF cols.virtual_path.cells[idx].valid
             THEN Some(ChunkInfo(cols.array_id.cells[idx].v, dec.val,
                                 Virtual(cols.virtual_path.cells[idx].v,
                                         cols.offset.cells[idx].v,
                                         cols.offset.cells[idx].v)))
             ELSE IF Len(cols.chunk_id.cells[idx].v) # ObjectIdSize THEN None
             ELSE Some(ChunkInfo(cols.array_id.cells[idx].v, dec.val,
                                 Ref(cols.chunk_id.cells[idx].v,
                                     cols.offset.cells[idx].v,
                                     cols.offset.cells[idx].v)))

\* ManifestsTable::get_row.  Each column is looked up by name and downcast, None
\* when either fails; value(idx) reads the value buffer without looking at the
\* validity bit.
get_row(batch, row) ==
    IF row >= NumRows(batch) THEN None
    ELSE LET id_col == TypedColumn(batch, "array_id", "UInt32")
             coords_col == TypedColumn(batch, "coords", "Binary")
             offset_col == TypedColumn(batch, "offset", "UInt64")
             length_col == TypedColumn(batch, "length", "UInt64")
             inline_col == TypedColumn(batch, "inline_data", "Binary")
             chunk_id_col == TypedColumn(batch, "chunk_id", "FixedSizeBinary")
             virtual_path_col == TypedColumn(batch, "virtual_path", "Utf8")
             extra_col == TypedColumn(batch, "extra", "Utf8")
             idx == row + 1
         IN  IF id_col.kind = "None" THEN None
             ELSE IF coords_col.kind = "None" THEN None
             ELSE IF offset_col.kind = "None" THEN None
             ELSE IF length_col.kind = "None" THEN None
             ELSE IF inline_col.kind = "None" THEN None
             ELSE IF chunk_id_col.kind = "None" THEN None
             ELSE IF virtual_path_col.kind = "None" THEN None
             ELSE IF extra_col.kind = "None" THEN None
             ELSE LET id == id_col.val[idx].v
                      dec == unchecked_try_from_slice(coords_col.val[idx].v)
                  IN  IF dec.kind = "Panic" THEN Panic
                      ELSE IF inline_col.val[idx].valid
                      THEN Some(ChunkInfo(id, dec.val, Inline(inline_col.val[idx].v)))
                      ELSE LET offset == offset_col.val[idx].v
                               length == length_col.val[idx].v
                           IN  IF virtual_path_col.val[idx].valid
                               THEN Some(ChunkInfo(id, dec.val,
                                         Virtual(virtual_path_col.val[idx].v,
                                                 offset, length)))
                               ELSE IF Len(chunk_id_col.val[idx].v) # ObjectIdSize
                               THEN None
                               ELSE Some(ChunkInfo(id, dec.val,
                                         Ref(chunk_id_col.val[idx].v, offset, length)))

\* Iterator::position over the sliced coords column: the first index, from 0
Position(arr, bin) ==
    LET hits == {p \in 1..Len(arr) : arr[p].valid /\ arr[p].v = bin}
    IN  IF hits = {} THEN None
        ELSE Some((CHOOSE p \in hits : \A q \in hits : p <= q) - 1)

\* mutant of get_chunk_info_index: the position in the slice is returned as is
get_chunk_info_index_relative(batch, c, from_row, to_row) ==
    IF to_row > NumRows(batch) \/ from_row > to_row THEN None
    ELSE LET coords_col == TypedColumn(batch, "coords", "Binary")
         IN  IF coords_col.kind = "None" THEN None
             ELSE Position(SubSeq(coords_col.val, from_row + 1, to_row), encode(c))

\* mutant of get_chunk_info_index: the region is not checked, the scan stops at
\* the end of the table
get_chunk_info_index_unchecked(batch, c, from_row, to_row) ==
    LET coords_col == TypedColumn(batch, "coords", "Binary")
        last == IF to_row > NumRows(batch) THEN NumRows(batch) ELSE to_row
    IN  IF coords_col.kind = "None" THEN None
        ELSE LET position ==
                     Position(SubSeq(coords_col.val, from_row + 1, last), encode(c))
             IN  IF position.kind = "None" THEN None
                 ELSE Some(position.val + from_row)

\* ManifestsTable::get_chunk_info_index
get_chunk_info_index(batch, c, from_row, to_row) ==
    IF to_row > NumRows(batch) \/ from_row > to_row THEN None
    ELSE LET coords_col == TypedColumn(batch, "coords", "Binary")
         IN  IF coords_col.kind = "None" THEN None
             ELSE LET arrray == SubSeq(coords_col.val, from_row + 1, to_row)
                      position == Position(arrray, encode(c))
                  IN  IF position.kind = "None" THEN None
                      ELSE Some(position.val + from_row)

\* ManifestsTable::get_chunk_info
get_chunk_info(batch, c, from_row, to_row) ==
    LET idx == get_chunk_info_index(batch, c, from_row, to_row)
    IN  IF idx.kind = "None" THEN None ELSE get_row(batch, idx.val)

unwrap_or(opt, dflt) == IF opt.kind = "Some" THEN opt.val ELSE dflt

\* ManifestsTable::iter: the range from..to it maps get_row over
iter(batch, from, to) ==
    [lo |-> unwrap_or(from, 0), hi |-> unwrap_or(to, NumRows(batch))]

(************************** mk_manifests_table *****************************)
\* mutant of PayloadColumns: an Inline chunk pushes offset 0 instead of None
PayloadColumnsInlineOffset(payload) ==
    IF payload.tag = "Inline"
    THEN [length |-> Len(payload.data), inline_data |-> Some(payload.data),
          chunk_id |-> None, virtual_path |-> None, offset |-> Some(0)]
    ELSE IF payload.tag = "Ref"
    THEN [length |-> payload.length, inline_data |-> None,
          chunk_id |-> Some(payload.id), virtual_path |-> None,
          offset |-> Some(payload.offset)]
    ELSE [length |-> payload.length, inline_data |-> None,
          chunk_id |-> None, virtual_path |-> Some(payload.location),
          offset |-> Some(payload.offset)]

\* the match on chunk.payload: what one record pushes on each accumulator
PayloadColumns(payload) ==
    IF payload.tag = "Inline"
    THEN [length |-> Len(payload.data), inline_data |-> Some(payload.data),
          chunk_id |-> None, virtual_path |-> None, offset |-> None]
    ELSE IF payload.tag = "Ref"
    THEN [length |-> payload.length, inline_data |-> None,
          chunk_id |-> Some(payload.id), virtual_path |-> None,
          offset |-> Some(payload.offset)]
    ELSE [length |-> payload.length, inline_data |-> None,
          chunk_id |-> None, virtual_path |-> Some(payload.location),
          offset |-> Some(payload.offset)]

Pending == [kind |-> "Pending"]

EmptyQuery ==
    [op |-> "none", coords |-> <<>>, from |-> 0, to |-> 0, row |-> 0,
     idx |-> None, res |-> None]

UnsetIter ==
    [status |-> "unset", from |-> None, to |-> None, lo |-> 0, hi |-> 0,
     next |-> 0, out |-> <<>>]

Iters == {1, 2}

EmptyCodec ==
    [op |-> "none", v |-> <<>>, bytes |-> <<>>, rank |-> Usize(0), slice |-> <<>>,
     overflow_checks |-> FALSE, res |-> [kind |-> "None", delegated |-> FALSE]]

\* the state at the call of mk_manifests_table on the stream s
InitWith(s) ==
    /\ input = s
    /\ pc = "building"
    /\ consumed = 0
    /\ array_ids = <<>>
    /\ coords = <<>>
    /\ chunk_ids = <<>>
    /\ inline_data = <<>>
    /\ virtual_paths = <<>>
    /\ offsets = <<>>
    /\ lengths = <<>>
    /\ extras = <<>>
    /\ result = Pending
    /\ query = EmptyQuery
    /\ its = [i \in Iters |-> UnsetIter]
    /\ codec = EmptyCodec

Init == \E s \in SeqsUpTo(StreamItems, MaxLen) : InitWith(s)

\* chunks.next() yields Ok(chunk): one push on every accumulator
BuildNext ==
    /\ pc = "building"
    /\ consumed < Len(input)
    /\ input[consumed + 1].kind = "Ok"
    /\ LET chunk == input[consumed + 1].val
           cols == PayloadColumns(chunk.payload)
       IN  /\ array_ids' = Append(array_ids, chunk.node)
           /\ coords' = Append(coords, chunk.coord)
           /\ extras' = Append(extras, None)
           /\ lengths' = Append(lengths, cols.length)
           /\ inline_data' = Append(inline_data, cols.inline_data)
           /\ chunk_ids' = Append(chunk_ids, cols.chunk_id)
           /\ virtual_paths' = Append(virtual_paths, cols.virtual_path)
           /\ offsets' = Append(offsets, cols.offset)
    /\ consumed' = consumed + 1
    /\ UNCHANGED <<input, pc, result, query, its, codec>>

\* mutant of BuildErr: the failing element is skipped and the build goes on
BuildErrSkip ==
    /\ pc = "building"
    /\ consumed < Len(input)
    /\ input[consumed + 1].kind = "Err"
    /\ consumed' = consumed + 1
    /\ UNCHANGED <<input, pc, array_ids, coords, chunk_ids, inline_data,
                   virtual_paths, offsets, lengths, extras, result, query, its, codec>>

\* chunks.next() yields Err(err): return Err(err)
BuildErr ==
    /\ pc = "building"
    /\ consumed < Len(input)
    /\ input[consumed + 1].kind = "Err"
    /\ consumed' = consumed + 1
    /\ result' = Err(input[consumed + 1].err)
    /\ pc' = "failed"
    /\ UNCHANGED <<input, array_ids, coords, chunk_ids, inline_data,
                   virtual_paths, offsets, lengths, extras, query, its, codec>>

\* chunks.next() yields None: the accumulators become the columns of the batch
BuildSeal ==
    /\ pc = "building"
    /\ consumed = Len(input)
    /\ result' = Ok(RecordBatchTryNew(
                       [array_id |-> mk_array_ids_array(array_ids),
                        coords |-> mk_coords_array(coords),
                        offset |-> mk_offsets_array(offsets),
                        length |-> mk_lengths_array(lengths),
                        inline_data |-> mk_inline_data_array(inline_data),
                        chunk_id |-> mk_chunk_ids_array(chunk_ids),
                        virtual_path |-> mk_virtual_paths_array(virtual_paths),
                        extra |-> mk_extras_array(extras)]))
    /\ pc' = "done"
    /\ UNCHANGED <<input, consumed, array_ids, coords, chunk_ids, inline_data,
                   virtual_paths, offsets, lengths, extras, query, its, codec>>

(***************************** lookups *************************************)
\* a call of get_chunk_info on the table, with its intermediate row offset
GetChunkInfo ==
    /\ pc = "done"
    /\ query.op = "none"
    /\ \E c \in QueryCoords, from_row \in 0..(MaxLen + 1), to_row \in 0..(MaxLen + 1) :
          query' = [op |-> "get_chunk_info", coords |-> c, from |-> from_row,
                    to |-> to_row, row |-> 0,
                    idx |-> get_chunk_info_index(result.val, c, from_row, to_row),
                    res |-> get_chunk_info(result.val, c, from_row, to_row)]
    /\ UNCHANGED <<buildVars, its, codec>>

\* a call of get_row on the table
GetRow ==
    /\ pc = "done"
    /\ query.op = "none"
    /\ \E row \in 0..(MaxLen + 1) :
          query' = [op |-> "get_row", coords |-> <<>>, from |-> 0, to |-> 0,
                    row |-> row, idx |-> None, res |-> get_row(result.val, row)]
    /\ UNCHANGED <<buildVars, its, codec>>

\* the caller is done with the value a lookup returned; a lookup that panicked
\* does not return
Return ==
    /\ query.op # "none"
    /\ query.res.kind # "Panic"
    /\ query' = EmptyQuery
    /\ UNCHANGED <<buildVars, its, codec>>

Next == BuildNext \/ BuildErr \/ BuildSeal \/ GetChunkInfo \/ GetRow \/ Return

Spec == Init /\ [][Next]_vars

(**************************** iteration ************************************)
\* the streams given to the builder before iterating: no failing element
IterChunkInfos == {c1a, c1b, c1c}

InitIter == \E s \in SeqsUpTo({Ok(c) : c \in IterChunkInfos}, MaxLen) : InitWith(s)

OptOffsets(S) == {None} \cup {Some(k) : k \in S}

\* table.iter(from, to): a new iterator over from..to, nothing decoded yet
IterNew(i) ==
    /\ pc = "done"
    /\ its[i].status = "unset"
    /\ \E from \in OptOffsets(0..MaxLen), to \in OptOffsets(0..(MaxLen + 1)) :
          LET r == iter(result.val, from, to)
          IN  its' = [its EXCEPT ![i] = [status |-> "active", from |-> from, to |-> to,
                                         lo |-> r.lo, hi |-> r.hi, next |-> r.lo,
                                         out |-> <<>>]]
    /\ UNCHANGED <<buildVars, query, codec>>

\* what next() does to one iterator: the range yields idx, the closure maps it
\* to Ok(self.get_row(idx).unwrap())
Advance(it, batch) ==
    LET row == get_row(batch, it.next)
    IN  IF row.kind = "Some"
        THEN [it EXCEPT !.next = it.next + 1, !.out = Append(it.out, Ok(row.val))]
        ELSE [it EXCEPT !.next = it.next + 1, !.status = "panicked"]

\* mutant of IterNext: the iterators of a table share one cursor
IterNextShared(i) ==
    /\ its[i].status = "active"
    /\ its[i].next < its[i].hi
    /\ its' = [k \in Iters |->
                 IF k = i THEN Advance(its[k], result.val)
                 ELSE IF its[k].status = "active"
                 THEN [its[k] EXCEPT !.next = its[k].next + 1]
                 ELSE its[k]]
    /\ UNCHANGED <<buildVars, query, codec>>

\* next() on iterator i while its range is not exhausted
IterNext(i) ==
    /\ its[i].status = "active"
    /\ its[i].next < its[i].hi
    /\ its' = [its EXCEPT ![i] = Advance(its[i], result.val)]
    /\ UNCHANGED <<buildVars, query, codec>>

\* next() on iterator i with its range exhausted: None
IterEnd(i) ==
    /\ its[i].status = "active"
    /\ its[i].next >= its[i].hi
    /\ its' = [its EXCEPT ![i].status = "done"]
    /\ UNCHANGED <<buildVars, query, codec>>

NextIter ==
    \/ BuildNext
    \/ BuildSeal
    \/ \E i \in Iters : IterNew(i)
    \/ \E i \in Iters : IterNext(i)
    \/ \E i \in Iters : IterEnd(i)

SpecIter == InitIter /\ [][NextIter]_vars

(******************************* codec calls *******************************)
\* components given to the codec, up to the largest the model's integers hold
U64Vals == {0, 1, 258, 2147483647}

InitCodec == InitWith(<<>>)

RECURSIVE Zeros(_)
Zeros(n) == IF n = 0 THEN <<>> ELSE <<0>> \o Zeros(n - 1)

\* byte strings handed to the decoders after an encoding gave bytes: bytes itself,
\* its prefixes down to 9 bytes shorter, and bytes followed by 1 or 8 zero bytes
SlicesOf(bytes) ==
    {SubSeq(bytes, 1, Len(bytes) - k) : k \in 0..(IF Len(bytes) < 9 THEN Len(bytes) ELSE 9)}
        \cup {bytes \o Zeros(1), bytes \o Zeros(8)}

\* let as_vec: Vec<u8> = (&arr).into()
Into ==
    /\ codec.op = "none"
    /\ \E v \in SeqsUpTo(U64Vals, MaxRank) :
          codec' = [EmptyCodec EXCEPT !.op = "into", !.v = v, !.bytes = encode(v)]
    /\ UNCHANGED <<buildVars, query, its>>

\* ranks given to the checked decoder: the small ones, and 2^61, 2^61 + 1 and
\* usize::MAX, whose product with 8 does not fit a usize
Ranks ==
    {Usize(k) : k \in 0..(MaxRank + 1)}
        \cup {<<8192, 0, 0, 0>>, <<8192, 0, 0, 1>>, <<65535, 65535, 65535, 65535>>}

\* ChunkIndices::try_from_slice(rank, slice), in a build with or without
\* overflow checks
TryFromSlice ==
    /\ codec.op = "into"
    /\ \E rank \in Ranks, slice \in SlicesOf(codec.bytes), checks \in BOOLEAN :
          codec' = [codec EXCEPT !.op = "try_from_slice", !.rank = rank,
                                 !.slice = slice, !.overflow_checks = checks,
                                 !.res = try_from_slice(rank, slice, checks)]
    /\ UNCHANGED <<buildVars, query, its>>

\* ChunkIndices::unchecked_try_from_slice(slice)
UncheckedTryFromSlice ==
    /\ codec.op = "into"
    /\ \E slice \in SlicesOf(codec.bytes) :
          codec' = [codec EXCEPT !.op = "unchecked_try_from_slice", !.slice = slice,
                                 !.res = unchecked_try_from_slice(slice)
                                            @@ [delegated |-> TRUE]]
    /\ UNCHANGED <<buildVars, query, its>>

\* the caller is done with the decoded value; a decoder that panicked does not return
CodecReturn ==
    /\ codec.op \in {"try_from_slice", "unchecked_try_from_slice"}
    /\ codec.res.kind # "Panic"
    /\ codec' = EmptyCodec
    /\ UNCHANGED <<buildVars, query, its>>

NextCodec == Into \/ TryFromSlice \/ UncheckedTryFromSlice \/ CodecReturn

SpecCodec == InitCodec /\ [][NextCodec]_vars

(********************** tables not made by the builder *********************)
\* ManifestsTable { batch } has a public field: any batch can be wrapped.  In a
\* batch of the manifest schema nulls are forbidden in array_id, coords and length
\* only, and the value buffer under a null bit holds whatever the producer of
\* the batch left.  A batch of another schema lacks a column or has it with
\* another data type.
RawCoords == {Cell(encode(<<0, 0>>)), Cell(encode(<<0, 1>>))}
RawOffsets == {Cell(7), Null(0), Null(66)}
RawInline == {Cell(<<104>>), Null(<<>>)}
RawChunkIds == {Cell(MkObjectId(7)), Null(MkObjectId(0)), Null(MkObjectId(5))}
RawVirtualPaths == {Cell("s3://x"), Null("")}

SchemaBatches ==
    {[num_rows |-> 1,
      columns |-> [array_id |-> Array("UInt32", <<Cell(1)>>),
                   coords |-> Array("Binary", <<c>>),
                   offset |-> Array("UInt64", <<o>>),
                   length |-> Array("UInt64", <<Cell(5)>>),
                   inline_data |-> Array("Binary", <<d>>),
                   chunk_id |-> Array("FixedSizeBinary", <<id>>),
                   virtual_path |-> Array("Utf8", <<p>>),
                   extra |-> Array("Utf8", <<Null("")>>)]] :
        c \in RawCoords, o \in RawOffsets, d \in RawInline, id \in RawChunkIds,
        p \in RawVirtualPaths}

ColumnNames ==
    {"array_id", "coords", "offset", "length", "inline_data", "chunk_id",
     "virtual_path", "extra"}

\* the batch b without the column name
WithoutColumn(b, name) ==
    [b EXCEPT !.columns = [n \in (DOMAIN b.columns) \ {name} |-> b.columns[n]]]

\* a Ref row and an Inline row of the manifest schema
RefBatch ==
    [num_rows |-> 1,
     columns |-> [array_id |-> Array("UInt32", <<Cell(1)>>),
                  coords |-> Array("Binary", <<Cell(encode(<<0, 0>>))>>),
                  offset |-> Array("UInt64", <<Cell(7)>>),
                  length |-> Array("UInt64", <<Cell(5)>>),
                  inline_data |-> Array("Binary", <<Null(<<>>)>>),
                  chunk_id |-> Array("FixedSizeBinary", <<Cell(MkObjectId(7))>>),
                  virtual_path |-> Array("Utf8", <<Null("")>>),
                  extra |-> Array("Utf8", <<Null("")>>)]]

\* batches of another schema: a column missing, coords or extra of a large
\* type, chunk_id one byte wider than an ObjectId, array_id alone
ForeignBatches ==
    {WithoutColumn(RefBatch, name) : name \in ColumnNames}
        \cup {[RefBatch EXCEPT !.columns.coords.dtype = "LargeBinary"],
              [RefBatch EXCEPT !.columns.extra.dtype = "LargeUtf8"],
              [RefBatch EXCEPT !.columns.chunk_id.cells =
                                   <<Cell(MkObjectId(7) \o <<7>>)>>],
              [num_rows |-> 1,
               columns |-> [array_id |-> Array("UInt32", <<Cell(1)>>)]]}

RawBatches == SchemaBatches \cup ForeignBatches

InitRaw ==
    \E batch \in RawBatches :
        /\ input = <<>>
        /\ pc = "done"
        /\ consumed = 0
        /\ array_ids = <<>>
        /\ coords = <<>>
        /\ chunk_ids = <<>>
        /\ inline_data = <<>>
        /\ virtual_paths = <<>>
        /\ offsets = <<>>
        /\ lengths = <<>>
        /\ extras = <<>>
        /\ result = Ok(batch)
        /\ query = EmptyQuery
        /\ its = [i \in Iters |-> UnsetIter]
        /\ codec = EmptyCodec

NextRaw == GetChunkInfo \/ GetRow \/ Return

SpecRaw == InitRaw /\ [][NextRaw]_vars

(******************************* properties ********************************)
Table == result.val

\* the slots of a column of the table
Col(name) == Table.columns[name].cells

Min(S) == CHOOSE p \in S : \A q \in S : p <= q

ErrIndexes == {k \in 1..Len(input) : input[k].kind = "Err"}

\* C1: a stream without failing element builds a table with one row per record,
\* and get_row(i) gives back the i-th record of the stream (node, coordinates,
\* payload variant and fields), in the order of the stream
C1_BuildThenGetRow ==
    /\ (ErrIndexes = {} /\ pc # "building") =>
          /\ result.kind = "Ok"
          /\ NumRows(Table) = Len(input)
          /\ \A i \in 0..(Len(input) - 1) : get_row(Table, i) = Some(input[i + 1].val)
    /\ (pc = "done" /\ query.op = "get_row" /\ query.row < Len(input)) =>
          query.res = Some(input[query.row + 1].val)

C1_Witness ==
    /\ pc = "done"
    /\ input = <<Ok(c1b), Ok(c1a), Ok(c1c)>>
    /\ query.op = "get_row"
    /\ query.row = 2
    /\ query.res = Some(c1c)

\* C2: in a region from <= to <= row_count, get_chunk_info_index returns the
\* smallest row offset of the region whose coordinate bytes are encode(c), nothing
\* when the region has none, and get_chunk_info returns the record of that row
RegionHits(c, from_row, to_row) ==
    {k \in from_row..(to_row - 1) : Col("coords")[k + 1].v = encode(c)}

C2_FirstMatchInRegion ==
    (/\ pc = "done"
     /\ query.op = "get_chunk_info"
     /\ query.from <= query.to
     /\ query.to <= NumRows(Table)) =>
        LET hits == RegionHits(query.coords, query.from, query.to)
        IN  IF hits = {}
            THEN query.idx = None /\ query.res = None
            ELSE /\ query.idx = Some(Min(hits))
                 /\ query.res = Some(input[Min(hits) + 1].val)

\* the duplicate of row 0 at row 2 is found by a region that leaves row 0 out
C2_Witness ==
    /\ pc = "done"
    /\ input = <<Ok(c1a), Ok(c2a), Ok(c1b)>>
    /\ query.op = "get_chunk_info"
    /\ query.coords = <<0, 0>>
    /\ query.from = 1
    /\ query.to = 3
    /\ query.idx = Some(2)
    /\ query.res = Some(c1b)

\* C3: with a failing element in the stream the build returns the failure of the
\* first one, never a table, and asks the stream for nothing after that element
C3_FirstFailureAborts ==
    ErrIndexes # {} =>
        /\ result.kind # "Ok"
        /\ pc # "done"
        /\ consumed <= Min(ErrIndexes)
        /\ pc = "failed" =>
              /\ result = Err(input[Min(ErrIndexes)].err)
              /\ consumed = Min(ErrIndexes)

C3_Witness ==
    /\ input = <<Ok(c1a), Err("E2"), Err("E1")>>
    /\ pc = "failed"
    /\ result = Err("E2")
    /\ consumed = 2

\* C4: a region with to > row_count or from > to finds nothing, whatever the
\* coordinates and the table
C4_BadRegionFindsNothing ==
    (/\ pc = "done"
     /\ query.op = "get_chunk_info"
     /\ (query.to > NumRows(Table) \/ query.from > query.to)) =>
        /\ query.idx = None
        /\ query.res = None

\* the coordinates are in the table, the region reaches one row too far
C4_Witness ==
    /\ pc = "done"
    /\ input = <<Ok(c1a), Ok(c2a)>>
    /\ query.op = "get_chunk_info"
    /\ query.coords = <<0, 1>>
    /\ query.from = 0
    /\ query.to = 3
    /\ query.res = None

\* C5: in a built table, every row has exactly one of inline_data, chunk_id and
\* virtual_path non-null, the one of the record's variant; offset is non-null
\* iff the record is not Inline; array_id, coords and length are non-null; extra
\* is null
C5_ColumnNullability ==
    pc = "done" =>
        /\ DOMAIN Table.columns = ColumnNames
        /\ \A i \in 1..NumRows(Table) :
            LET tag == input[i].val.payload.tag
            IN  /\ Col("inline_data")[i].valid <=> (tag = "Inline")
                /\ Col("chunk_id")[i].valid <=> (tag = "Ref")
                /\ Col("virtual_path")[i].valid <=> (tag = "Virtual")
                /\ Cardinality({col \in {"inline_data", "chunk_id", "virtual_path"} :
                                    Col(col)[i].valid}) = 1
                /\ Col("offset")[i].valid <=> ~Col("inline_data")[i].valid
                /\ Col("array_id")[i].valid
                /\ Col("coords")[i].valid
                /\ Col("length")[i].valid
                /\ ~Col("extra")[i].valid

C5_Witness ==
    /\ pc = "done"
    /\ input = <<Ok(c1b), Ok(c1a), Ok(c1c)>>
    /\ ~Col("offset")[1].valid
    /\ Col("chunk_id")[2].valid
    /\ Col("virtual_path")[3].valid

\* byte j (1 is the most significant) of the 8 big-endian bytes of c < 2^32
ByteAt(c, j) == IF j <= 4 THEN 0 ELSE (c \div (256 ^ (8 - j))) % 256

\* C6: encoding v gives 8 * Len(v) bytes, component i on bytes 8(i-1)+1..8i, most
\* significant byte first, and both decoders (the checked one at rank Len(v))
\* give v back from those bytes; no other vector encodes to the same bytes
C6_CodecRoundTrip ==
    codec.op # "none" =>
        /\ Len(codec.bytes) = 8 * Len(codec.v)
        /\ \A w \in SeqsUpTo(U64Vals, MaxRank) : encode(w) = codec.bytes => w = codec.v
        /\ \A i \in 1..Len(codec.v) : \A j \in 1..8 :
              codec.bytes[8 * (i - 1) + j] = ByteAt(codec.v[i], j)
        /\ (/\ codec.op = "try_from_slice"
            /\ codec.slice = codec.bytes
            /\ codec.rank = Usize(Len(codec.v))) =>
               (codec.res.kind = "Ok" /\ codec.res.val = codec.v)
        /\ (codec.op = "unchecked_try_from_slice" /\ codec.slice = codec.bytes) =>
               (codec.res.kind = "Ok" /\ codec.res.val = codec.v)

C6_Witness ==
    /\ codec.op = "try_from_slice"
    /\ codec.v = <<258, 2147483647>>
    /\ codec.bytes = <<0, 0, 0, 0, 0, 0, 1, 2, 0, 0, 0, 0, 127, 255, 255, 255>>
    /\ codec.slice = codec.bytes
    /\ codec.rank = Usize(2)
    /\ codec.res.kind = "Ok"
    /\ codec.res.val = <<258, 2147483647>>

\* C7: try_from_slice returns an error, without calling the unchecked decoder and
\* without panicking, when the slice is not rank * 8 bytes long, and succeeds
\* when it is; rank * 8 is the product of the numbers, on one limb more
C7_CheckedDecodeLength ==
    codec.op = "try_from_slice" =>
        IF <<0>> \o Usize(Len(codec.slice)) # MulWide(codec.rank, 8)
        THEN /\ codec.res.kind = "Err"
             /\ codec.res.len = Len(codec.slice)
             /\ ~codec.res.delegated
        ELSE codec.res.kind = "Ok"

\* the same for the ranks whose product with 8 fits a usize
C7_CheckedDecodeLengthInRange ==
    (codec.op = "try_from_slice" /\ MulWide(codec.rank, 8)[1] = 0) =>
        IF Usize(Len(codec.slice)) # Tail(MulWide(codec.rank, 8))
        THEN /\ codec.res.kind = "Err"
             /\ codec.res.len = Len(codec.slice)
             /\ ~codec.res.delegated
        ELSE codec.res.kind = "Ok"

\* C8: an iterator over from <= to <= row_count (from 0 and to row_count when
\* omitted) never fails, has yielded Ok(the decoded row from + j) as its j-th item,
\* in row order, ends after to - from items, and advances only by its own calls
C8_IterateRange ==
    pc = "done" =>
        \A i \in Iters :
            LET it == its[i]
            IN  it.status # "unset" =>
                  /\ it.lo = unwrap_or(it.from, 0)
                  /\ it.hi = unwrap_or(it.to, NumRows(Table))
                  /\ (it.lo <= it.hi /\ it.hi <= NumRows(Table)) =>
                        /\ it.status # "panicked"
                        /\ it.next <= it.hi
                        /\ Len(it.out) = it.next - it.lo
                        /\ \A j \in 1..Len(it.out) :
                              it.out[j] = Ok(input[it.lo + j].val)
                        /\ it.status = "done" => Len(it.out) = it.hi - it.lo

\* two iterators over the same rows, one finished and one a single item in
C8_Witness ==
    /\ pc = "done"
    /\ input = <<Ok(c1a), Ok(c1b), Ok(c1c)>>
    /\ its[1].from = Some(1)
    /\ its[1].to = None
    /\ its[1].status = "done"
    /\ its[1].out = <<Ok(c1b), Ok(c1c)>>
    /\ its[2].from = Some(1)
    /\ its[2].to = Some(3)
    /\ its[2].status = "active"
    /\ its[2].out = <<Ok(c1b)>>

\* C9: when get_row yields nothing for a row offset of the iterated range, the
\* iterator yields an error item at that position: it does not panic, and it has
\* one item per row offset it went over
C9_DecodeFailureIsAnItem ==
    pc = "done" =>
        \A i \in Iters :
            LET it == its[i]
            IN  it.status # "unset" =>
                  /\ it.status # "panicked"
                  /\ Len(it.out) = it.next - it.lo
                  /\ \A j \in 1..Len(it.out) :
                        get_row(Table, it.lo + j - 1).kind # "Some" =>
                            it.out[j].kind = "Err"

\* the batch has the eight columns with the types get_row downcasts to
HasSchema(batch) ==
    \A k \in 1..Len(RowColumns) :
        TypedColumn(batch, RowColumns[k][1], RowColumns[k][2]).kind = "Some"

\* a row of a table of the manifest schema where inline_data, chunk_id and
\* virtual_path are not exactly one non-null
Malformed(batch, row) ==
    /\ HasSchema(batch)
    /\ Cardinality({col \in {"inline_data", "chunk_id", "virtual_path"} :
                       batch.columns[col].cells[row + 1].valid}) # 1

MalformedRow == [kind |-> "MalformedRow"]

\* C10: get_row and get_chunk_info on a row that breaks the mutual exclusion of
\* inline_data, chunk_id and virtual_path report MalformedRow
C10_MalformedRowReported ==
    /\ (/\ query.op = "get_row"
        /\ query.row < NumRows(Table)
        /\ Malformed(Table, query.row)) => query.res = MalformedRow
    /\ (/\ query.op = "get_chunk_info"
        /\ query.idx.kind = "Some"
        /\ Malformed(Table, query.idx.val)) => query.res = MalformedRow

====
